---- MODULE Spec2Model ----
(***************************************************************************)
(* Model of ai_query_utils.py: the question classifier, the SQL builders,  *)
(* the SQL executor (its connection and cursor scopes) and the             *)
(* orchestrator query_impairment_data.                                     *)
(*                                                                         *)
(* Python text is a sequence of one-character strings, a dict is a         *)
(* function from its keys, a list is a sequence.  Exception texts and the  *)
(* fixed error messages are kept as whole strings: nothing searches them.  *)
(***************************************************************************)
EXTENDS Integers, Sequences, FiniteSets, TLC

\* ------------------------------------------------------------------ bounds

\* A question is a concatenation of at most MaxFrags fragments.
MaxFrags == 2
\* The warehouse returns at most MaxRows rows for one statement.
MaxRows == 2

\* ------------------------------------------------------- program constants

SampleLimit == 5
ContextLimit == 3
AnalysisLimit == 10
SamplePreviewLen == 200
ContextPreviewLen == 150
AnalysisPreviewLen == 100

\* ------------------------------------------------------------------- text

Min(a, b) == IF a < b THEN a ELSE b

\* The one element of a singleton set.  Operators that use an argument more
\* than once bind it as the element of {argument}, so that it is evaluated once.
The(singleton) == CHOOSE x \in singleton : TRUE

\* s[:n]
Take(s0, n) == The({ SubSeq(s, 1, Min(n, Len(s))) : s \in {s0} })

Upper == <<"A","B","C","D","E","F","G","H","I","J","K","L","M",
           "N","O","P","Q","R","S","T","U","V","W","X","Y","Z">>
Lowers == <<"a","b","c","d","e","f","g","h","i","j","k","l","m",
            "n","o","p","q","r","s","t","u","v","w","x","y","z">>

UpperSet == { Upper[i] : i \in 1..26 }
LowerOf == [c \in UpperSet |-> Lowers[CHOOSE i \in 1..26 : Upper[i] = c]]

LowerChar(c) == IF c \in UpperSet THEN LowerOf[c] ELSE c

\* str.lower()
Lower(s0) == The({ [i \in 1..Len(s) |-> LowerChar(s[i])] : s \in {s0} })

\* pattern in s
Contains(s0, p0) ==
    \E s \in {s0}, p \in {p0} :
        \E i \in 0..(Len(s) - Len(p)) : SubSeq(s, i + 1, i + Len(p)) = p

\* The separator-joined concatenation of a list of texts: sep.join(parts)
RECURSIVE Join(_, _)
Join(parts0, sep) ==
    The({ IF parts = <<>> THEN <<>>
          ELSE IF Len(parts) = 1 THEN parts[1]
          ELSE parts[1] \o sep \o Join(Tail(parts), sep) : parts \in {parts0} })

\* s.replace("'", "''"): each character is replaced on its own, so the text is
\* replaced half by half.
RECURSIVE EscapeQuotes(_)
EscapeQuotes(s0) ==
    The({ IF s = <<>> THEN <<>>
          ELSE IF Len(s) = 1 THEN (IF s[1] = "'" THEN <<"'", "'">> ELSE s)
          ELSE EscapeQuotes(SubSeq(s, 1, Len(s) \div 2))
                   \o EscapeQuotes(SubSeq(s, (Len(s) \div 2) + 1, Len(s)))
          : s \in {s0} })

Digits == <<"0","1","2","3","4","5","6","7","8","9">>

\* str(n) for n >= 0
RECURSIVE IntToStr(_)
IntToStr(n) ==
    IF n < 10 THEN <<Digits[n + 1]>>
    ELSE IntToStr(n \div 10) \o <<Digits[(n % 10) + 1]>>

\* Three digits, zero padded: one group of the "," format.
Group3(n) ==
    <<Digits[(n \div 100) + 1], Digits[((n \div 10) % 10) + 1], Digits[(n % 10) + 1]>>

\* f"{n:,}" for n >= 0
RECURSIVE FormatThousands(_)
FormatThousands(n) ==
    IF n < 1000 THEN IntToStr(n)
    ELSE FormatThousands(n \div 1000) \o <<",">> \o Group3(n % 1000)

\* ---------------------------------------------------- texts of the source

\* DEFAULT_CATALOG
DEFAULT_CATALOG == <<"d","e","v","_","s","t","r","u","c","t","u","r","e","d">>

\* DEFAULT_SCHEMA
DEFAULT_SCHEMA == <<"a","n","a","l","y","t","i","c","s">>

\* DEFAULT_TABLE
DEFAULT_TABLE ==
    <<
    "m","e","a","s","u","r","e","r","e","s","p","o","n","s",
    "e","s","_","i","m","p","a","i","r","m","e","n","t" >>

\* DEFAULT_ENDPOINT
DEFAULT_ENDPOINT ==
    <<
    "d","a","t","a","b","r","i","c","k","s","-","g","p","t",
    "-","o","s","s","-","1","2","0","b" >>

\* The text of build_count_query_sql before the table name.
CountSqlHead ==
    <<
    "S","E","L","E","C","T"," ","C","O","U","N","T","(","*",
    ")"," ","A","S"," ","t","o","t","a","l","_","r","e","c",
    "o","r","d","s"," ","F","R","O","M"," " >>

\* build_sample_query_sql: the text before the table name
SampleSqlHead ==
    <<
    "S","E","L","E","C","T"," ","\n"," "," "," "," "," "," ",
    " "," ","k","o","o","_","c","h","i","m","e","a","s","u",
    "r","e","r","e","s","p","o","n","s","e","i","d",",","\n",
    " "," "," "," "," "," "," "," ","k","o","o","_","c","l",
    "i","e","n","t","i","d",",","\n"," "," "," "," "," "," ",
    " "," ","k","o","o","_","r","e","s","p","o","n","s","e",
    "e","x","t","e","n","d","e","d",",","\n"," "," "," "," ",
    " "," "," "," ","k","o","o","_","a","p","p","c","o","d",
    "e",",","\n"," "," "," "," "," "," "," "," ","c","r","e",
    "a","t","e","d","o","n","\n"," "," "," "," ","F","R","O",
    "M"," " >>

\* build_sample_query_sql: between the table name and the limit
SampleSqlWhere ==
    <<
    "\n"," "," "," "," ","W","H","E","R","E"," ","k","o","o",
    "_","r","e","s","p","o","n","s","e","e","x","t","e","n",
    "d","e","d"," ","I","S"," ","N","O","T"," ","N","U","L",
    "L"," ","\n"," "," "," "," "," "," ","A","N","D"," ","T",
    "R","I","M","(","k","o","o","_","r","e","s","p","o","n",
    "s","e","e","x","t","e","n","d","e","d",")"," ","!","=",
    " ","'","'","\n"," "," "," "," ","L","I","M","I","T"," " >>

\* build_ai_query_with_data_sql: the statement before the endpoint
AskSqlHead ==
    <<
    "S","E","L","E","C","T"," ","a","i","_","q","u","e","r",
    "y","(","\n"," "," "," "," "," "," "," "," ","'" >>

\* build_ai_query_with_data_sql: between the endpoint and the prompt
AskSqlMid == <<"'",",","\n"," "," "," "," "," "," "," "," ","'">>

\* build_ai_query_with_data_sql: the statement after the prompt
AskSqlTail ==
    <<
    "'","\n"," "," "," "," ",")"," ","A","S"," ","r","e","s",
    "p","o","n","s","e" >>

\* prompt: the framing before the data
PromptHead ==
    <<
    "Y","o","u"," ","a","r","e"," ","a"," ","h","e","a","l",
    "t","h","c","a","r","e"," ","d","a","t","a"," ","a","n",
    "a","l","y","s","t"," ","a","s","s","i","s","t","a","n",
    "t"," ","a","n","a","l","y","z","i","n","g"," ","t","h",
    "e"," ","m","e","a","s","u","r","e","r","e","s","p","o",
    "n","s","e","s","_","i","m","p","a","i","r","m","e","n",
    "t"," ","t","a","b","l","e",".","\n","\n","H","e","r","e",
    " ","i","s"," ","t","h","e"," ","a","c","t","u","a","l",
    " ","d","a","t","a"," ","f","r","o","m"," ","t","h","e",
    " ","d","a","t","a","b","a","s","e",":","\n" >>

\* prompt: between the data and the question
PromptMid ==
    <<
    "\n","\n","U","s","e","r"," ","q","u","e","s","t","i","o",
    "n",":"," " >>

\* prompt: after the question
PromptTail ==
    <<
    "\n","\n","B","a","s","e","d"," ","o","n"," ","t","h","e",
    " ","a","c","t","u","a","l"," ","d","a","t","a"," ","p",
    "r","o","v","i","d","e","d"," ","a","b","o","v","e",",",
    " ","p","l","e","a","s","e"," ","a","n","s","w","e","r",
    " ","t","h","e"," ","u","s","e","r","'","s"," ","q","u",
    "e","s","t","i","o","n"," ","d","i","r","e","c","t","l",
    "y"," ","a","n","d"," ","a","c","c","u","r","a","t","e",
    "l","y","." >>

\* build_data_analysis_sql: the statement before the endpoint
AnalysisSqlHead ==
    <<
    "S","E","L","E","C","T"," ","\n"," "," "," "," "," "," ",
    " "," ","k","o","o","_","c","h","i","m","e","a","s","u",
    "r","e","r","e","s","p","o","n","s","e","i","d",",","\n",
    " "," "," "," "," "," "," "," ","k","o","o","_","r","e",
    "s","p","o","n","s","e","e","x","t","e","n","d","e","d",
    ",","\n"," "," "," "," "," "," "," "," ","a","i","_","q",
    "u","e","r","y","(","\n"," "," "," "," "," "," "," "," ",
    " "," "," "," ","'" >>

\* build_data_analysis_sql: between the endpoint and the question
AnalysisSqlInstr ==
    <<
    "'",",","\n"," "," "," "," "," "," "," "," "," "," "," ",
    " ","C","O","N","C","A","T","(","\n"," "," "," "," "," ",
    " "," "," "," "," "," "," "," "," "," "," ","'","A","n",
    "a","l","y","z","e"," ","t","h","i","s"," ","h","e","a",
    "l","t","h","c","a","r","e"," ","r","e","s","p","o","n",
    "s","e"," ","t","e","x","t"," ","a","n","d"," ","a","n",
    "s","w","e","r"," ","t","h","e"," ","f","o","l","l","o",
    "w","i","n","g"," ","q","u","e","s","t","i","o","n",":",
    " " >>

\* build_data_analysis_sql: between the question and the table name
AnalysisSqlFrom ==
    <<
    "\\","n","\\","n","T","e","x","t",":"," ","'",",","\n"," ",
    " "," "," "," "," "," "," "," "," "," "," "," "," "," ",
    " ","C","O","A","L","E","S","C","E","(","k","o","o","_",
    "r","e","s","p","o","n","s","e","e","x","t","e","n","d",
    "e","d",","," ","'","N","o"," ","t","e","x","t"," ","a",
    "v","a","i","l","a","b","l","e","'",")","\n"," "," "," ",
    " "," "," "," "," "," "," "," "," ",")","\n"," "," "," ",
    " "," "," "," "," ",")"," ","A","S"," ","a","n","a","l",
    "y","s","i","s","\n"," "," "," "," ","F","R","O","M"," " >>

\* build_data_analysis_sql: between the table name and the limit
AnalysisSqlWhere ==
    <<
    "\n"," "," "," "," ","W","H","E","R","E"," ","k","o","o",
    "_","r","e","s","p","o","n","s","e","e","x","t","e","n",
    "d","e","d"," ","I","S"," ","N","O","T"," ","N","U","L",
    "L"," ","\n"," "," "," "," "," "," ","A","N","D"," ","T",
    "R","I","M","(","k","o","o","_","r","e","s","p","o","n",
    "s","e","e","x","t","e","n","d","e","d",")"," ","!","=",
    " ","'","'","\n"," "," "," "," ","L","I","M","I","T"," " >>

\* count context
TotalRecordsIn ==
    <<
    "T","o","t","a","l"," ","r","e","c","o","r","d","s"," ",
    "i","n"," " >>

\* sample context
SampleRecordsFrom ==
    <<
    "S","a","m","p","l","e"," ","r","e","c","o","r","d","s",
    " ","f","r","o","m"," " >>

RecordLabel == <<"R","e","c","o","r","d"," ">>

Ellipsis == <<".",".",".">>

TableLabel == <<"T","a","b","l","e",":"," ">>

UnableToFetch ==
    <<
    " ","(","u","n","a","b","l","e"," ","t","o"," ","f","e",
    "t","c","h"," ","s","a","m","p","l","e"," ","d","a","t",
    "a",")" >>

NA == <<"N","/","A">>

NoAnalysisAvailable ==
    <<
    "N","o"," ","a","n","a","l","y","s","i","s"," ","a","v",
    "a","i","l","a","b","l","e" >>

NoResultsMessage ==
    <<
    "Q","u","e","r","y"," ","e","x","e","c","u","t","e","d",
    " ","s","u","c","c","e","s","s","f","u","l","l","y"," ",
    "b","u","t"," ","r","e","t","u","r","n","e","d"," ","n",
    "o"," ","r","e","s","u","l","t","s","." >>

\* ------------------------------------------------------------- classifier

count_patterns ==
    { <<"h","o","w"," ","m","a","n","y">>,
      <<"c","o","u","n","t">>,
      <<"n","u","m","b","e","r"," ","o","f">>,
      <<"t","o","t","a","l">>,
      <<"r","e","c","o","r","d","s"," ","i","n">>,
      <<"r","o","w","s"," ","i","n">>,
      <<"e","n","t","r","i","e","s"," ","i","n">>,
      <<"h","o","w"," ","m","u","c","h">> }

sample_patterns ==
    { <<"s","h","o","w"," ","m","e">>,
      <<"e","x","a","m","p","l","e">>,
      <<"s","a","m","p","l","e">>,
      <<"g","i","v","e"," ","m","e">>,
      <<"l","i","s","t">>,
      <<"w","h","a","t"," ","a","r","e">>,
      <<"d","i","s","p","l","a","y">>,
      <<"f","e","t","c","h">> }

\* A mutant of _is_count_question: the question is matched as typed, not
\* lower-cased.
IsCountQuestionNoLower(question) ==
    \E pattern \in count_patterns : Contains(question, pattern)

_is_count_question(question) ==
    \E question_lower \in {Lower(question)} :
        \E pattern \in count_patterns : Contains(question_lower, pattern)

_is_sample_question(question) ==
    \E question_lower \in {Lower(question)} :
        \E pattern \in sample_patterns : Contains(question_lower, pattern)

\* --------------------------------------------------------------- builders

QualifiedName(catalog, schema, table) ==
    catalog \o <<".">> \o schema \o <<".">> \o table

build_count_query_sql(catalog, schema, table) ==
    CountSqlHead \o QualifiedName(catalog, schema, table)

build_sample_query_sql(catalog, schema, table, limit) ==
    SampleSqlHead \o QualifiedName(catalog, schema, table)
        \o SampleSqlWhere \o IntToStr(limit)

build_ai_query_with_data_sql(user_question, data_ctx, endpoint) ==
    LET escaped_question == EscapeQuotes(user_question)
        escaped_data == EscapeQuotes(data_ctx)
        prompt == PromptHead \o escaped_data \o PromptMid
                      \o escaped_question \o PromptTail
        escaped_prompt == EscapeQuotes(prompt)
    IN  AskSqlHead \o endpoint \o AskSqlMid \o escaped_prompt \o AskSqlTail

build_data_analysis_sql(user_question, endpoint, catalog, schema, table, limit) ==
    LET escaped_question == EscapeQuotes(user_question)
    IN  AnalysisSqlHead \o endpoint \o AnalysisSqlInstr \o escaped_question
            \o AnalysisSqlFrom \o QualifiedName(catalog, schema, table)
            \o AnalysisSqlWhere \o IntToStr(limit)

\* ------------------------------------------------------------ Python data

\* dict.get(key, default)
Get(row, key, default) == IF key \in DOMAIN row THEN row[key] ELSE default

\* The truth value of a text or a list: empty is false.
Truthy(s) == s # <<>>

\* All lists of at most n elements of pool.
Lists(pool, n) == UNION { [1..k -> pool] : k \in 0..n }

\* The caller's question: a text, or None when the caller passed no text.
PyStr(text) == [type |-> "str", value |-> text]
PyNone == [type |-> "NoneType", value |-> <<>>]

\* The access token: a text kept whole, or None.
NoneToken == "None"
Tokens == {NoneToken, "", "token"}
TokenTruthy(token) == token \notin {NoneToken, ""}

Modes == {"general", "analyze"}

\* ----------------------------------------------------------------- inputs

FragHowMany == <<"H","o","w"," ","M","A","N","Y"," ">>
FragShowMe == <<"S","h","o","w"," ","m","e"," ">>
FragWhat == <<"w","h","a","t">>
FragAre == <<" ","a","r","e"," ","O","'","B","r","i","e","n","'","s">>

Fragments == {FragHowMany, FragShowMe, FragWhat, FragAre}

\* The questions a caller may type: the fragments, concatenated, and each
\* phrase of the classifier on its own.
QuestionTexts ==
    { Join(fs, <<>>) : fs \in Lists(Fragments, MaxFrags) }
        \cup count_patterns \cup sample_patterns

Questions == { PyStr(q) : q \in QuestionTexts } \cup {PyNone}

\* ------------------------------------------------- what the warehouse returns

ShortText == <<"i","t","'","s">>

\* A content longer than every preview length, whose cut shows where it was cut.
LongText ==
    [i \in 1..(SamplePreviewLen + 1) |->
        IF i <= AnalysisPreviewLen THEN "a"
        ELSE IF i <= ContextPreviewLen THEN "b"
        ELSE IF i <= SamplePreviewLen THEN "c" ELSE "d"]

CountRowPool ==
    { [total_records |-> 4900000], [total_records |-> 999], [n |-> 7] }

SampleRowPool ==
    { [koo_responseextended |-> LongText], [koo_clientid |-> <<"7">>] }

AnalysisRowPool ==
    { [koo_chimeasureresponseid |-> <<"1">>, koo_responseextended |-> ShortText,
       analysis |-> <<"x">>],
      [koo_responseextended |-> LongText],
      [koo_chimeasureresponseid |-> <<"2">>, koo_responseextended |-> <<>>,
       analysis |-> <<"y">>] }

AskRowPool == { [response |-> <<"o","k">>], [answer |-> <<"n","o">>] }

\* The rows a statement can return: at most MaxRows, and at most its LIMIT; the
\* count and the ask statements select one expression from no row source and
\* return at most one row.
RowsOf(q) ==
    CASE q.kind = "count" -> Lists(CountRowPool, Min(q.limit, MaxRows))
      [] q.kind = "sample" -> Lists(SampleRowPool, Min(q.limit, MaxRows))
      [] q.kind = "analysis" -> Lists(AnalysisRowPool, Min(q.limit, MaxRows))
      [] OTHER -> Lists(AskRowPool, Min(q.limit, MaxRows))

\* ------------------------------------------------------ str() of a result row

ColumnOrder == <<"response", "answer">>
ColumnText ==
    [response |-> <<"r","e","s","p","o","n","s","e">>,
     answer |-> <<"a","n","s","w","e","r">>]

\* repr() of a text without backslashes: in double quotes when it holds a
\* single quote and no double quote, in single quotes otherwise.
PyReprStr(text) ==
    IF Contains(text, <<"'">>) /\ ~Contains(text, <<"\"">>)
    THEN <<"\"">> \o text \o <<"\"">>
    ELSE <<"'">> \o text \o <<"'">>

\* str(row) of a dict of texts
StrOfRow(row) ==
    LET keys == SelectSeq(ColumnOrder, LAMBDA k : k \in DOMAIN row)
        item(k) == PyReprStr(ColumnText[k]) \o <<":", " ">> \o PyReprStr(row[k])
    IN  <<"{">> \o Join([i \in 1..Len(keys) |-> item(keys[i])], <<",", " ">>)
            \o <<"}">>

\* --------------------------------------------------- the chat page: app.py

\* The endpoint and the table coordinates the page passes to
\* query_impairment_data.
AI_QUERY_ENDPOINT ==
    <<
    "d","a","t","a","b","r","i","c","k","s","-","g","p","t",
    "-","o","s","s","-","1","2","0","b" >>
CATALOG == <<"d","e","v","_","s","t","r","u","c","t","u","r","e","d">>
SCHEMA == <<"a","n","a","l","y","t","i","c","s">>
TABLE ==
    <<
    "m","e","a","s","u","r","e","s","p","o","n","s","e","s",
    "_","i","m","p","a","i","r","m","e","n","t" >>

\* The options of the Query Mode radio; the first is the default.
DataQueryMode == "Data Query (ai_query)"
GeneralChatMode == "General Chat"
QueryModes == {DataQueryMode, GeneralChatMode}

VARIABLES
    endpoint_supported, \* is_endpoint_supported(SERVING_ENDPOINT)
    query_mode,         \* the radio's choice
    messages,           \* st.session_state.messages
    app_pc              \* where the page's script run stands: "idle" between
                        \* runs, "querying" in query_impairment_data,
                        \* "chatting" in query_endpoint

appvars == <<endpoint_supported, query_mode, messages, app_pc>>

\* -------------------------------------------- the orchestrator's reshaping

\* The arguments of query_impairment_data: the page's when the page calls it,
\* the defaults otherwise.

catalog == IF app_pc = "querying" THEN CATALOG ELSE DEFAULT_CATALOG
schema == IF app_pc = "querying" THEN SCHEMA ELSE DEFAULT_SCHEMA
table == IF app_pc = "querying" THEN TABLE ELSE DEFAULT_TABLE
endpoint == IF app_pc = "querying" THEN AI_QUERY_ENDPOINT ELSE DEFAULT_ENDPOINT

ExecSuccess(results) ==
    [success |-> TRUE, results |-> results, row_count |-> Len(results)]
ExecFailure(error) == [success |-> FALSE, error |-> error]

\* f"Total records in {catalog}.{schema}.{table}: {total_records:,}"
CountContext(total_records) ==
    TotalRecordsIn \o QualifiedName(catalog, schema, table) \o <<":", " ">>
        \o FormatThousands(total_records)

\* f"Record {i}: {text_preview}..." with text_preview the first cut characters
DataLine(i, row, cut) ==
    RecordLabel \o IntToStr(i) \o <<":", " ">>
        \o Take(Get(row, "koo_responseextended", <<>>), cut) \o Ellipsis

\* "Sample records from <table>:\n" and the data lines, one per row
SampleContext(sample_rows, cut) ==
    SampleRecordsFrom \o QualifiedName(catalog, schema, table) \o <<":", "\n">>
        \o Join([i \in 1..Len(sample_rows) |-> DataLine(i, sample_rows[i], cut)],
                <<"\n">>)

FallbackContext ==
    TableLabel \o QualifiedName(catalog, schema, table) \o UnableToFetch

\* A mutant of AnalysisRecord: the preview is cut but gets no ellipsis.
AnalysisRecordNoEllipsis(row) ==
    [id |-> Get(row, "koo_chimeasureresponseid", NA),
     text_preview |->
        IF Truthy(Get(row, "koo_responseextended", <<>>))
        THEN Take(row.koo_responseextended, AnalysisPreviewLen)
        ELSE NA,
     analysis |-> Get(row, "analysis", NoAnalysisAvailable)]

\* One entry of analyses for one row of the analysis statement.
AnalysisRecord(row) ==
    [id |-> Get(row, "koo_chimeasureresponseid", NA),
     text_preview |->
        IF Truthy(Get(row, "koo_responseextended", <<>>))
        THEN Take(row.koo_responseextended, AnalysisPreviewLen) \o Ellipsis
        ELSE NA,
     analysis |-> Get(row, "analysis", NoAnalysisAvailable)]

AnalysisEnvelope(results) ==
    LET analyses == [i \in 1..Len(results) |-> AnalysisRecord(results[i])]
    IN  [success |-> TRUE, response |-> analyses, mode |-> "analyze",
         record_count |-> Len(analyses)]

\* Step 2 of query_impairment_data: the envelope of the last result.
ProcessResult(result, mode_) ==
    IF result.success
    THEN IF Truthy(result.results)
         THEN LET first_result == result.results[1]
              IN  [success |-> TRUE,
                   response |-> Get(first_result, "response", StrOfRow(first_result)),
                   mode |-> mode_]
         ELSE [success |-> TRUE, response |-> NoResultsMessage, mode |-> mode_]
    ELSE [success |-> FALSE, error |-> Get(result, "error", "Unknown error occurred")]

\* A mutant of TopLevelExcept: the exception goes on to the caller.
TopLevelReraise(e) == [exception |-> e]

\* except Exception as e: return {"success": False, "error": str(e)}
TopLevelExcept(e) == [success |-> FALSE, error |-> e]

\* A mutant of _execute_sql: the token is ignored.
ExecuteSqlServicePrincipalOnly(token) == "service_principal"

\* _execute_sql: the credential mode a statement runs under
_execute_sql(token) ==
    IF TokenTruthy(token) THEN "user_token" ELSE "service_principal"

\* A mutant of ExitScope: the block is left without closing.
ExitScopeLeaks(resource) == resource

\* Leaving a with block closes what the block opened.
ExitScope(resource) == IF resource = "open" THEN "closed" ELSE resource

\* ----------------------------------------------------------------- errors

AttributeErrorText == "'NoneType' object has no attribute 'lower'"
IndexErrorText == "list index out of range"
ConfigErrorText == "cannot configure default credentials"
WarehouseMissingText ==
    "DATABRICKS_WAREHOUSE_ID environment variable is not set. Please configure it in app.yaml."
TokenMissingText ==
    "User access token not available. Please ensure you are running in a Databricks App environment."
ConnectErrorText == "connect: error"
CursorErrorText == "cursor: error"
ExecuteErrorText == "execute: error"
FetchErrorText == "fetchall_arrow: error"
ConvertErrorText == "to_pandas: error"

\* os.getenv('DATABRICKS_WAREHOUSE_ID'): unset, empty or set
WarehouseIds == {"None", "", "abc123"}
\* A mutant of WarehouseTruthy: the warehouse id is not checked.
WarehouseNotChecked(id) == TRUE
WarehouseTruthy(id) == id \notin {"None", ""}

\* ------------------------------------------------------------------ state

VARIABLES
    warehouse_id,   \* the environment's DATABRICKS_WAREHOUSE_ID
    pc,             \* where query_impairment_data stands
    user_question,  \* its arguments
    mode,
    user_token,
    branch,         \* the branch of step 1 it took
    data_context,   \* its local data_context
    xpc,            \* where the running _execute_sql_with_* call stands
    query,          \* that call's statement
    cred,           \* the credential mode _execute_sql chose for it
    connection,     \* the call's connection: "none", "open", "closed"
    cursor,         \* the call's cursor: "none", "open", "closed"
    connects,       \* sql.connect calls made by the call
    cursors,        \* connection.cursor calls made by the call
    df,             \* the rows the call fetched
    xres,           \* the dict the call returned
    executed,       \* the calls of _execute_sql of this run, in order
    envelope,       \* what query_impairment_data returned
    raised          \* the exception raised inside its try block, if any

queryvars ==
    <<warehouse_id, pc, user_question, mode, user_token, branch, data_context,
      xpc, query, cred, connection, cursor, connects, cursors, df, xres,
      executed, envelope, raised>>

vars == <<queryvars, appvars>>

inputs == <<user_question, mode, user_token>>
callvars == <<query, cred, connection, cursor, connects, cursors, df, xres>>

NoQuery == [kind |-> "none", limit |-> 0, sql |-> <<>>]
NoResult == [pending |-> TRUE]
NoEnvelope == [pending |-> TRUE]
NoException == "no exception"

\* No call of query_impairment_data has been made.
QueryInit ==
    /\ warehouse_id \in WarehouseIds
    /\ pc = "idle"
    /\ user_question = PyNone
    /\ mode = "general"
    /\ user_token = NoneToken
    /\ branch = "none"
    /\ data_context = <<>>
    /\ xpc = "none"
    /\ query = NoQuery
    /\ cred = "none"
    /\ connection = "none"
    /\ cursor = "none"
    /\ connects = 0
    /\ cursors = 0
    /\ df = <<>>
    /\ xres = NoResult
    /\ executed = <<>>
    /\ envelope = NoEnvelope
    /\ raised = NoException

\* The page has been loaded: no message yet, the radio on its default.
PageInit ==
    /\ query_mode = DataQueryMode
    /\ messages = <<>>
    /\ app_pc = "idle"

\* query_impairment_data called on its own: the page stays as loaded.
Init ==
    /\ QueryInit
    /\ PageInit
    /\ endpoint_supported = TRUE

\* ------------------------------------------------------------ the executor

\* _execute_sql(q, user_token) is called: the mode is chosen, the try entered.
StartExec(q) ==
    /\ query' = q
    /\ cred' = _execute_sql(user_token)
    /\ xpc' = "try"
    /\ connection' = "none"
    /\ cursor' = "none"
    /\ connects' = 0
    /\ cursors' = 0
    /\ df' = <<>>
    /\ xres' = NoResult

\* The call returns res to the orchestrator.
XReturn(res) ==
    /\ xres' = res
    /\ xpc' = "done"
    /\ executed' = Append(executed,
            [kind |-> query.kind, sql |-> query.sql, cred |-> cred,
             connects |-> connects', cursors |-> cursors', result |-> res])

\* An exception leaves the with blocks, which close what they opened, and is
\* caught by the call's except clause.
XRaise(e) ==
    /\ cursor' = ExitScope(cursor)
    /\ connection' = ExitScope(connection)
    /\ XReturn(ExecFailure(e))

\* Config(), then the checks of the warehouse id and of the token.
XEnter ==
    /\ xpc = "try"
    /\ UNCHANGED appvars
    /\ UNCHANGED <<warehouse_id, pc, inputs, branch, data_context, query, cred,
                   connects, cursors, df, envelope, raised>>
    /\ \E cfg_ok \in BOOLEAN :
        IF ~cfg_ok THEN XRaise(ConfigErrorText)
        ELSE IF ~WarehouseTruthy(warehouse_id)
        THEN /\ UNCHANGED <<connection, cursor>>
             /\ XReturn(ExecFailure(WarehouseMissingText))
        ELSE IF cred = "user_token" /\ ~TokenTruthy(user_token)
        THEN /\ UNCHANGED <<connection, cursor>>
             /\ XReturn(ExecFailure(TokenMissingText))
        ELSE /\ xpc' = "connect"
             /\ UNCHANGED <<connection, cursor, xres, executed>>

\* with sql.connect(...) as connection
XConnect ==
    /\ xpc = "connect"
    /\ UNCHANGED appvars
    /\ connects' = connects + 1
    /\ UNCHANGED <<warehouse_id, pc, inputs, branch, data_context, query, cred,
                   cursors, df, envelope, raised>>
    /\ \E ok \in BOOLEAN :
        IF ok
        THEN /\ connection' = "open"
             /\ xpc' = "cursor"
             /\ UNCHANGED <<cursor, xres, executed>>
        ELSE XRaise(ConnectErrorText)

\* with connection.cursor() as cursor
XCursor ==
    /\ xpc = "cursor"
    /\ UNCHANGED appvars
    /\ cursors' = cursors + 1
    /\ UNCHANGED <<warehouse_id, pc, inputs, branch, data_context, query, cred,
                   connects, df, envelope, raised>>
    /\ \E ok \in BOOLEAN :
        IF ok
        THEN /\ cursor' = "open"
             /\ xpc' = "execute"
             /\ UNCHANGED <<connection, xres, executed>>
        ELSE XRaise(CursorErrorText)

\* cursor.execute(query)
XExecute ==
    /\ xpc = "execute"
    /\ UNCHANGED appvars
    /\ UNCHANGED <<warehouse_id, pc, inputs, branch, data_context, query, cred,
                   connects, cursors, df, envelope, raised>>
    /\ \E ok \in BOOLEAN :
        IF ok
        THEN /\ xpc' = "fetch"
             /\ UNCHANGED <<connection, cursor, xres, executed>>
        ELSE XRaise(ExecuteErrorText)

\* cursor.fetchall_arrow()
XFetch ==
    /\ xpc = "fetch"
    /\ UNCHANGED appvars
    /\ UNCHANGED <<warehouse_id, pc, inputs, branch, data_context, query, cred,
                   connects, cursors, envelope, raised>>
    /\ \/ /\ \E rows \in RowsOf(query) : df' = rows
          /\ xpc' = "convert"
          /\ UNCHANGED <<connection, cursor, xres, executed>>
       \/ /\ df' = df
          /\ XRaise(FetchErrorText)

\* .to_pandas(), df.to_dict('records') and the return out of both with blocks
XConvert ==
    /\ xpc = "convert"
    /\ UNCHANGED appvars
    /\ UNCHANGED <<warehouse_id, pc, inputs, branch, data_context, query, cred,
                   connects, cursors, df, envelope, raised>>
    /\ \E ok \in BOOLEAN :
        IF ok
        THEN /\ cursor' = ExitScope(cursor)
             /\ connection' = ExitScope(connection)
             /\ XReturn(ExecSuccess(df))
        ELSE XRaise(ConvertErrorText)

\* -------------------------------------------------------- the orchestrator

CountQuery ==
    [kind |-> "count", limit |-> 1,
     sql |-> build_count_query_sql(catalog, schema, table)]
SampleQuery(limit) ==
    [kind |-> "sample", limit |-> limit,
     sql |-> build_sample_query_sql(catalog, schema, table, limit)]
AskQuery(question, ctx) ==
    [kind |-> "ask", limit |-> 1,
     sql |-> build_ai_query_with_data_sql(question, ctx, endpoint)]
AnalysisQuery(question) ==
    [kind |-> "analysis", limit |-> AnalysisLimit,
     sql |-> build_data_analysis_sql(question, endpoint, catalog, schema, table,
                                     AnalysisLimit)]

\* query_impairment_data(user_question, mode, ..., user_token) is called.
Call ==
    /\ pc = "idle"
    /\ UNCHANGED appvars
    /\ pc' = "called"
    /\ user_question' \in Questions
    /\ mode' \in Modes
    /\ user_token' \in Tokens
    /\ UNCHANGED <<warehouse_id, branch, data_context, xpc, callvars, executed,
                   envelope, raised>>

\* The orchestrator returns env.
Return(env) ==
    /\ envelope' = env
    /\ pc' = "returned"

\* An exception e is raised inside the try block and caught at its end.
Raise(e) ==
    /\ raised' = e
    /\ Return(TopLevelExcept(e))

\* _is_count_question(user_question) on an argument that is no text
ClassifyRaises ==
    /\ pc = "called"
    /\ UNCHANGED appvars
    /\ user_question.type # "str"
    /\ Raise(AttributeErrorText)
    /\ UNCHANGED <<warehouse_id, inputs, branch, data_context, xpc, callvars,
                   executed>>

\* if _is_count_question(user_question): the count statement is executed
RouteCount ==
    /\ pc = "called"
    /\ UNCHANGED appvars
    /\ user_question.type = "str"
    /\ _is_count_question(user_question.value)
    /\ branch' = "count"
    /\ pc' = "count"
    /\ StartExec(CountQuery)
    /\ UNCHANGED <<warehouse_id, inputs, data_context, executed, envelope, raised>>

\* elif _is_sample_question(user_question): the sample statement is executed
RouteSample ==
    /\ pc = "called"
    /\ UNCHANGED appvars
    /\ user_question.type = "str"
    /\ ~_is_count_question(user_question.value)
    /\ _is_sample_question(user_question.value)
    /\ branch' = "sample"
    /\ pc' = "sample"
    /\ StartExec(SampleQuery(SampleLimit))
    /\ UNCHANGED <<warehouse_id, inputs, data_context, executed, envelope, raised>>

\* elif mode == "analyze": the analysis statement is executed
RouteAnalyze ==
    /\ pc = "called"
    /\ UNCHANGED appvars
    /\ user_question.type = "str"
    /\ ~_is_count_question(user_question.value)
    /\ ~_is_sample_question(user_question.value)
    /\ mode = "analyze"
    /\ branch' = "analyze"
    /\ pc' = "final"
    /\ StartExec(AnalysisQuery(user_question.value))
    /\ UNCHANGED <<warehouse_id, inputs, data_context, executed, envelope, raised>>

\* else: the context statement is executed
RouteGeneral ==
    /\ pc = "called"
    /\ UNCHANGED appvars
    /\ user_question.type = "str"
    /\ ~_is_count_question(user_question.value)
    /\ ~_is_sample_question(user_question.value)
    /\ mode # "analyze"
    /\ branch' = "general"
    /\ pc' = "context"
    /\ StartExec(SampleQuery(ContextLimit))
    /\ UNCHANGED <<warehouse_id, inputs, data_context, executed, envelope, raised>>

\* The ask-with-context statement is built from ctx and executed.
Ask(ctx) ==
    /\ data_context' = ctx
    /\ pc' = "final"
    /\ StartExec(AskQuery(user_question.value, ctx))
    /\ UNCHANGED <<envelope, raised>>

\* A mutant of AfterCount: a failed count statement is treated as the general
\* branch treats its context fetch.
AfterCountGoesOn ==
    /\ pc = "count"
    /\ UNCHANGED appvars
    /\ xpc = "done"
    /\ UNCHANGED <<warehouse_id, inputs, branch, executed>>
    /\ IF ~xres.success
       THEN Ask(FallbackContext)
       ELSE IF xres.results = <<>>
       THEN /\ Raise(IndexErrorText)
            /\ UNCHANGED <<data_context, xpc, callvars>>
       ELSE Ask(CountContext(Get(xres.results[1], "total_records", 0)))

\* The count statement returned: lines 328-338.
AfterCount ==
    /\ pc = "count"
    /\ UNCHANGED appvars
    /\ xpc = "done"
    /\ UNCHANGED <<warehouse_id, inputs, branch, executed>>
    /\ IF ~xres.success
       THEN /\ Return(xres)
            /\ UNCHANGED <<data_context, xpc, callvars, raised>>
       ELSE IF xres.results = <<>>
       THEN /\ Raise(IndexErrorText)
            /\ UNCHANGED <<data_context, xpc, callvars>>
       ELSE Ask(CountContext(Get(xres.results[1], "total_records", 0)))

\* The sample statement returned: lines 346-361.
AfterSample ==
    /\ pc = "sample"
    /\ UNCHANGED appvars
    /\ xpc = "done"
    /\ UNCHANGED <<warehouse_id, inputs, branch, executed>>
    /\ IF ~xres.success
       THEN /\ Return(xres)
            /\ UNCHANGED <<data_context, xpc, callvars, raised>>
       ELSE Ask(SampleContext(xres.results, SamplePreviewLen))

\* A mutant of AfterContext: a failed context fetch ends the run, as a failed
\* sample statement does.
AfterContextAborts ==
    /\ pc = "context"
    /\ UNCHANGED appvars
    /\ xpc = "done"
    /\ UNCHANGED <<warehouse_id, inputs, branch, executed>>
    /\ IF ~xres.success
       THEN /\ Return(xres)
            /\ UNCHANGED <<data_context, xpc, callvars, raised>>
       ELSE IF Truthy(xres.results)
       THEN Ask(SampleContext(xres.results, ContextPreviewLen))
       ELSE Ask(FallbackContext)

\* The context statement returned: lines 397-411.
AfterContext ==
    /\ pc = "context"
    /\ UNCHANGED appvars
    /\ xpc = "done"
    /\ UNCHANGED <<warehouse_id, inputs, branch, executed>>
    /\ IF xres.success /\ Truthy(xres.results)
       THEN Ask(SampleContext(xres.results, ContextPreviewLen))
       ELSE Ask(FallbackContext)

\* The last statement returned: lines 376-391 and step 2.
Finish ==
    /\ pc = "final"
    /\ UNCHANGED appvars
    /\ xpc = "done"
    /\ UNCHANGED <<warehouse_id, inputs, branch, data_context, xpc, callvars,
                   executed, raised>>
    /\ IF branch = "analyze" /\ xres.success /\ Truthy(xres.results)
       THEN Return(AnalysisEnvelope(xres.results))
       ELSE Return(ProcessResult(xres, mode))

\* The frame of a call that returned is dropped.
ResetFrame ==
    /\ pc' = "idle"
    /\ user_question' = PyNone
    /\ mode' = "general"
    /\ user_token' = NoneToken
    /\ branch' = "none"
    /\ data_context' = <<>>
    /\ xpc' = "none"
    /\ query' = NoQuery
    /\ cred' = "none"
    /\ connection' = "none"
    /\ cursor' = "none"
    /\ connects' = 0
    /\ cursors' = 0
    /\ df' = <<>>
    /\ xres' = NoResult
    /\ executed' = <<>>
    /\ envelope' = NoEnvelope
    /\ raised' = NoException
    /\ UNCHANGED warehouse_id

\* The caller has the envelope; the next call starts from a fresh frame.
NextCall ==
    /\ pc = "returned"
    /\ ResetFrame
    /\ UNCHANGED appvars

Next ==
    \/ Call
    \/ ClassifyRaises
    \/ RouteCount
    \/ RouteSample
    \/ RouteAnalyze
    \/ RouteGeneral
    \/ XEnter
    \/ XConnect
    \/ XCursor
    \/ XExecute
    \/ XFetch
    \/ XConvert
    \/ AfterCount
    \/ AfterSample
    \/ AfterContext
    \/ Finish
    \/ NextCall

Spec == Init /\ [][Next]_vars

\* Every call made is carried on: the program is synchronous and each step
\* returns or raises.
FairSpec == Spec /\ WF_vars(Next)

\* ------------------------------------------------------------ the chat page

\* The texts of format_analysis_response.
NoAnalysisResults ==
    <<
    "N","o"," ","a","n","a","l","y","s","i","s"," ","r","e",
    "s","u","l","t","s"," ","a","v","a","i","l","a","b","l",
    "e","." >>
RecordOpen == <<"*","*","R","e","c","o","r","d"," ">>
RecordIdOpen == <<"*","*"," ","(","I","D",":"," ">>
RecordIdClose == <<")","\n">>
PreviewLabel == <<"*","P","r","e","v","i","e","w",":","*"," ">>
AnalysisLabel == <<"*","A","n","a","l","y","s","i","s",":","*"," ">>
NoAnalysis == <<"N","o"," ","a","n","a","l","y","s","i","s">>
PartSeparator == <<"\n","-","-","-","\n">>

\* format_analysis_response(analysis_results)
format_analysis_response(analysis_results) ==
    IF ~Truthy(analysis_results) THEN NoAnalysisResults
    ELSE LET part(i) ==
                 RecordOpen \o IntToStr(i) \o RecordIdOpen
                     \o Get(analysis_results[i], "id", NA) \o RecordIdClose
                     \o PreviewLabel \o Get(analysis_results[i], "text_preview", NA)
                     \o <<"\n">>
                     \o AnalysisLabel \o Get(analysis_results[i], "analysis", NoAnalysis)
                     \o <<"\n">>
         IN  Join([i \in 1..Len(analysis_results) |-> part(i)], PartSeparator)

\* The prompts a user may type in the chat input: texts, never empty.
Prompts == {FragHowMany, FragShowMe, FragAre}

\* The user turns a history may hold before it is cleared.
MaxPrompts == 2

UserTurns(history) == Len(SelectSeq(history, LAMBDA m : m.role = "user"))

\* What query_endpoint(...) gives back: a message whose content is a text, or
\* an exception (the endpoint cannot be reached, or refuses the request).
ChatReplies == { <<"h","i">>, <<"o","k">> }
QueryEndpointOutcomes ==
    { [raises |-> FALSE, content |-> c] : c \in ChatReplies }
        \cup { [raises |-> TRUE] }

\* f"Error querying data: {error}": the error's text is kept whole.
ErrorQueryingData == "Error querying data: "

\* isinstance(result["response"], list): only the analysis envelope, the one
\* with a record count, carries a list.
HasListResponse(result) == "record_count" \in DOMAIN result

\* The assistant's text for the envelope of query_impairment_data.
AssistantResponse(result) ==
    IF result.success
    THEN IF HasListResponse(result)
         THEN format_analysis_response(result.response)
         ELSE result.response
    ELSE <<ErrorQueryingData, Get(result, "error", "Unknown error")>>

UserMessage(content) == [role |-> "user", content |-> content]
AssistantMessage(content) == [role |-> "assistant", content |-> content]

PageReady == endpoint_supported /\ app_pc = "idle"

\* The user picks the other option of the Query Mode radio: the script runs
\* again with no prompt.
SelectQueryMode ==
    /\ PageReady
    /\ query_mode' \in QueryModes \ {query_mode}
    /\ UNCHANGED <<endpoint_supported, messages, app_pc, queryvars>>

\* The user presses Clear Chat History: the history is emptied and the script
\* runs again.
ClearChatHistory ==
    /\ PageReady
    /\ messages' = <<>>
    /\ UNCHANGED <<endpoint_supported, query_mode, app_pc, queryvars>>

\* The user submits a prompt: the script appends the user's message and calls
\* the backend of the chosen mode, query_impairment_data with mode "general"
\* and no token, or query_endpoint.
SubmitPrompt ==
    /\ PageReady
    /\ UserTurns(messages) < MaxPrompts
    /\ \E prompt \in Prompts :
        /\ messages' = Append(messages, UserMessage(prompt))
        /\ IF query_mode = DataQueryMode
           THEN /\ app_pc' = "querying"
                /\ pc' = "called"
                /\ user_question' = PyStr(prompt)
                /\ mode' = "general"
                /\ user_token' = NoneToken
                /\ UNCHANGED <<warehouse_id, branch, data_context, xpc, callvars,
                               executed, envelope, raised>>
           ELSE /\ app_pc' = "chatting"
                /\ UNCHANGED queryvars
    /\ UNCHANGED <<endpoint_supported, query_mode>>

\* query_impairment_data returned: its envelope becomes the assistant's
\* message, which is appended, and the script run ends.
DataQueryAnswers ==
    /\ app_pc = "querying"
    /\ pc = "returned"
    /\ messages' = Append(messages, AssistantMessage(AssistantResponse(envelope)))
    /\ app_pc' = "idle"
    /\ ResetFrame
    /\ UNCHANGED <<endpoint_supported, query_mode>>

\* query_endpoint returned a message: its content is appended as the
\* assistant's message, and the script run ends.
ChatAnswers ==
    /\ app_pc = "chatting"
    /\ \E outcome \in QueryEndpointOutcomes :
        /\ ~outcome.raises
        /\ messages' = Append(messages, AssistantMessage(outcome.content))
    /\ app_pc' = "idle"
    /\ UNCHANGED <<endpoint_supported, query_mode, queryvars>>

\* query_endpoint raised: nothing catches the exception, which ends the script
\* run before the assistant's message is appended; the session keeps the
\* history as it is.
ChatRaises ==
    /\ app_pc = "chatting"
    /\ \E outcome \in QueryEndpointOutcomes : outcome.raises
    /\ app_pc' = "idle"
    /\ UNCHANGED <<endpoint_supported, query_mode, messages, queryvars>>

\* The page is loaded with the endpoint supported or not.
AppInit ==
    /\ QueryInit
    /\ PageInit
    /\ endpoint_supported \in BOOLEAN

\* The page's events, and the steps of the call of query_impairment_data it
\* makes: the page passes a text and mode "general", so the call neither fails
\* to classify nor takes the analyze branch.
AppNext ==
    \/ SelectQueryMode
    \/ ClearChatHistory
    \/ SubmitPrompt
    \/ RouteCount
    \/ RouteSample
    \/ RouteGeneral
    \/ XEnter
    \/ XConnect
    \/ XCursor
    \/ XExecute
    \/ XFetch
    \/ XConvert
    \/ AfterCount
    \/ AfterSample
    \/ AfterContext
    \/ Finish
    \/ DataQueryAnswers
    \/ ChatAnswers
    \/ ChatRaises

AppSpec == AppInit /\ [][AppNext]_vars

\* ---------------------------------------------------------------- claims

IsFailure(r) == DOMAIN r = {"success", "error"} /\ ~r.success
IsTextSuccess(r) == DOMAIN r = {"success", "response", "mode"} /\ r.success
IsRecordsSuccess(r) ==
    DOMAIN r = {"success", "response", "mode", "record_count"} /\ r.success
IsExecutionResult(r) ==
    \/ IsFailure(r)
    \/ DOMAIN r = {"success", "results", "row_count"} /\ r.success

InCall == pc \notin {"idle", "returned"}

\* What C1 says of each state of a call.
C1_State ==
    /\ InCall => envelope = NoEnvelope /\ raised = NoException
    /\ pc = "returned" =>
        /\ IsFailure(envelope) \/ IsTextSuccess(envelope) \/ IsRecordsSuccess(envelope)
        /\ raised # NoException =>
            /\ IsFailure(envelope)
            /\ envelope.error = raised
    /\ \A i \in 1..Len(executed) : IsExecutionResult(executed[i].result)

\* C1: one call of query_impairment_data always goes on until it returns, and
\* what it returns is one envelope, Success or Failure; an exception raised
\* inside it is never propagated but returned as Failure with the exception's
\* text, and no call of the executor raises: each returns Success or Failure.
C1_OneEnvelopePerCall ==
    /\ []C1_State
    /\ (pc = "called") ~> (pc = "returned")

\* C1 witness: the count statement returned no row, indexing it raised, and
\* the call returned.
C1_Witness ==
    /\ pc = "returned"
    /\ raised = IndexErrorText
    /\ Len(executed) = 1

\* Whether a text, lower-cased, holds a count phrase, and a sample phrase:
\* worked out once for each question text.
HasCountPhrase ==
    [text \in QuestionTexts |->
        \E low \in {Lower(text)} : \E p \in count_patterns : Contains(low, p)]
HasSamplePhrase ==
    [text \in QuestionTexts |->
        \E low \in {Lower(text)} : \E p \in sample_patterns : Contains(low, p)]

Routed == pc \notin {"idle", "called"} /\ user_question.type = "str"

\* C2: a question with a count phrase in its lower-cased text is routed as
\* Count, also when it has a sample phrase; it is routed as Sample exactly
\* when it has a sample phrase and no count phrase; any other question is
\* Default (the analyze or the general branch, as the mode says), and the mode
\* changes nothing else.
C2_ClassificationPriority ==
    Routed =>
        \E count \in {HasCountPhrase[user_question.value]},
           sample \in {HasSamplePhrase[user_question.value]} :
            /\ branch = "count" <=> count
            /\ branch = "sample" <=> (sample /\ ~count)
            /\ branch \in {"analyze", "general"} <=> (~sample /\ ~count)
            /\ branch = "analyze" => mode = "analyze"
            /\ branch = "general" => mode = "general"

\* C2 witness: a question with a count phrase (in capitals) and a sample
\* phrase, asked in analyze mode, was routed.
C2_Witness ==
    /\ Routed
    /\ user_question.value = FragShowMe \o FragHowMany
    /\ mode = "analyze"
    /\ branch = "count"

PrepFailed ==
    /\ branch \in {"count", "sample"}
    /\ Len(executed) >= 1
    /\ ~executed[1].result.success

\* C3: in a Count or Sample run whose preparatory statement failed, that
\* statement is the only one the run executes (no ask-with-context statement
\* is started), and the run returns the preparatory statement's Failure.
C3_PrepFailureReturnsAtOnce ==
    PrepFailed =>
        /\ Len(executed) = 1
        /\ executed[1].kind = branch
        /\ query.kind = branch
        /\ pc \in {branch, "returned"}
        /\ pc = "returned" =>
            /\ IsFailure(envelope)
            /\ envelope.error = executed[1].result.error

\* C3 witness: a Sample run returned after its sample statement failed in
\* cursor.execute.
C3_Witness ==
    /\ PrepFailed
    /\ branch = "sample"
    /\ pc = "returned"
    /\ executed[1].result.error = ExecuteErrorText

\* What step 2 makes of the result r of the last statement, in the run's mode.
IsStep2Of(env, r) ==
    IF ~r.success
    THEN IsFailure(env) /\ env.error = r.error
    ELSE /\ IsTextSuccess(env)
         /\ env.mode = mode
         /\ env.response =
              IF r.results = <<>> THEN NoResultsMessage
              ELSE IF "response" \in DOMAIN r.results[1]
              THEN r.results[1].response
              ELSE StrOfRow(r.results[1])

CountSucceeded ==
    /\ branch = "count"
    /\ pc = "returned"
    /\ Len(executed) >= 1
    /\ executed[1].result.success

\* C4: in a Count run whose count statement succeeded, whatever rows it
\* returned, the run executes exactly one ask-with-context statement after it
\* and returns what step 2 makes of that statement's result.
C4_CountSuccessLeadsToAsk ==
    CountSucceeded =>
        /\ Len(executed) = 2
        /\ executed[2].kind = "ask"
        /\ IsStep2Of(envelope, executed[2].result)

\* C5: a general run of a Default question executes exactly two statements,
\* the 3-row context fetch and then the ask-with-context statement, whatever
\* the fetch returned; when the fetch failed or returned no row the context is
\* the fallback text naming the table; the envelope is what step 2 makes of
\* the ask-with-context result alone.
C5_ContextFetchIsBestEffort ==
    (branch = "general" /\ pc = "returned") =>
        /\ Len(executed) = 2
        /\ executed[1].kind = "sample"
        /\ executed[1].sql = build_sample_query_sql(catalog, schema, table, ContextLimit)
        /\ executed[2].kind = "ask"
        /\ executed[2].sql =
              build_ai_query_with_data_sql(user_question.value, data_context, endpoint)
        /\ (~executed[1].result.success \/ executed[1].result.results = <<>>) =>
              /\ data_context = FallbackContext
              /\ Contains(data_context, QualifiedName(catalog, schema, table))
        /\ IsStep2Of(envelope, executed[2].result)

\* C5 witness: the context fetch failed and the run still returned Success.
C5_Witness ==
    /\ branch = "general"
    /\ pc = "returned"
    /\ ~executed[1].result.success
    /\ envelope.success

\* C6: when the last statement a run executed succeeded with no row the run
\* returns the fixed no-results Success in the caller's mode; when it failed
\* the run returns Failure; when it succeeded with rows, and the run is not
\* the analyze branch, the payload is the first row's response (or the row as
\* a string).
C6_LastStatementDecides ==
    (pc = "returned" /\ executed # <<>>) =>
        LET last == executed[Len(executed)].result
        IN  /\ ~last.success => IsFailure(envelope)
            /\ (last.success /\ last.results = <<>>) =>
                  /\ IsTextSuccess(envelope)
                  /\ envelope.response = NoResultsMessage
                  /\ envelope.mode = mode
            /\ (last.success /\ last.results # <<>> /\ branch # "analyze") =>
                  IsStep2Of(envelope, last)

\* What C7 says of the i-th analysis record rec, made of the i-th row.
IsRecordOf(rec, row) ==
    /\ DOMAIN rec = {"id", "text_preview", "analysis"}
    /\ rec.id = (IF "koo_chimeasureresponseid" \in DOMAIN row
                 THEN row.koo_chimeasureresponseid ELSE NA)
    /\ rec.analysis = (IF "analysis" \in DOMAIN row
                       THEN row.analysis ELSE NoAnalysisAvailable)
    /\ ("koo_responseextended" \in DOMAIN row /\ row.koo_responseextended # <<>>) =>
          \E content \in {row.koo_responseextended} :
              rec.text_preview =
                  SubSeq(content, 1, Min(AnalysisPreviewLen, Len(content)))
                      \o <<".", ".", ".">>

\* C7: an analyze run of a Default question executes one statement only, the
\* row analysis statement; when it returns n >= 1 rows the envelope is Success
\* in mode analyze whose payload is n analysis records, the i-th made of the
\* i-th row: id or "N/A", the first 100 characters of a present content and
\* "...", analysis or "No analysis available".
C7_AnalyzeReturnsRecords ==
    (branch = "analyze" /\ pc = "returned") =>
        /\ Len(executed) = 1
        /\ executed[1].kind = "analysis"
        /\ \E r \in {executed[1].result} :
            (r.success /\ r.results # <<>>) =>
                /\ IsRecordsSuccess(envelope)
                /\ envelope.mode = "analyze"
                /\ Len(envelope.response) = Len(r.results)
                /\ envelope.record_count = Len(r.results)
                /\ \A i \in 1..Len(r.results) :
                      IsRecordOf(envelope.response[i], r.results[i])

\* C7 witness: an analyze run returned two records, the second of a content
\* of more than 100 characters.
C7_Witness ==
    /\ branch = "analyze"
    /\ pc = "returned"
    /\ envelope.success
    /\ executed[1].result.success
    /\ Len(executed[1].result.results) = 2
    /\ executed[1].result.results[2] = [koo_responseextended |-> LongText]

\* C8: a call of the executor opens at most one connection and one cursor,
\* the cursor inside the connection, and once the call has returned, normally
\* or after an exception at any step, neither is open.
C8_ConnectionScopedToCall ==
    /\ connects <= 1
    /\ cursors <= 1
    /\ cursor = "open" => connection = "open"
    /\ xpc \in {"none", "done"} => (connection # "open" /\ cursor # "open")
    /\ connection = "open" => xpc \in {"cursor", "execute", "fetch", "convert"}
    /\ \A i \in 1..Len(executed) :
          executed[i].connects <= 1 /\ executed[i].cursors <= 1

\* C8 witness: a call returned after fetchall_arrow raised with the connection
\* and the cursor open, and both are closed.
C8_Witness ==
    /\ xpc = "done"
    /\ ~xres.success
    /\ xres.error = FetchErrorText
    /\ connection = "closed"
    /\ cursor = "closed"

WarehouseUnset == warehouse_id \in {"None", ""}

\* C9: when DATABRICKS_WAREHOUSE_ID is not set, under either credential mode,
\* no call of the executor makes a connection attempt and each returns
\* Failure, and the orchestrator returns a Failure envelope.
C9_NoWarehouseNoConnect ==
    WarehouseUnset =>
        /\ connects = 0
        /\ connection = "none"
        /\ xpc \notin {"connect", "cursor", "execute", "fetch", "convert"}
        /\ \A i \in 1..Len(executed) :
              /\ executed[i].connects = 0
              /\ IsFailure(executed[i].result)
        /\ pc = "returned" => IsFailure(envelope)

\* C9 witness: with the warehouse id unset, a general run under the user's
\* token made both its calls, each answered with the missing-warehouse
\* Failure, and returned.
C9_Witness ==
    /\ WarehouseUnset
    /\ pc = "returned"
    /\ Len(executed) = 2
    /\ executed[1].cred = "user_token"
    /\ executed[1].result.error = WarehouseMissingText
    /\ envelope.error = WarehouseMissingText

TokenSupplied == user_token \notin {NoneToken, ""}
ExpectedMode == IF TokenSupplied THEN "user_token" ELSE "service_principal"

\* C10: every statement of a run executes under the user token when a
\* (non-empty) token was supplied and under the service principal otherwise,
\* so all statements of a run share one mode; a statement that failed is not
\* executed again in that run.
C10_OneCredentialModePerRun ==
    /\ xpc # "none" => cred = ExpectedMode
    /\ \A i \in 1..Len(executed) : executed[i].cred = ExpectedMode
    /\ \A i \in 1..Len(executed) : \A j \in 1..Len(executed) :
          (i < j /\ ~executed[i].result.success) =>
              executed[j].kind # executed[i].kind

\* C10 witness: under a supplied token the context fetch of a general run
\* failed in sql.connect, and the run went on to its ask statement under the
\* same mode.
C10_Witness ==
    /\ TokenSupplied
    /\ pc = "returned"
    /\ Len(executed) = 2
    /\ executed[1].result.success = FALSE
    /\ executed[1].result.error = ConnectErrorText
    /\ executed[2].cred = "user_token"

\* The question as a statement holds it when each of its quotes is written
\* twice: worked out once for each question text.
QuestionDoubled == [text \in QuestionTexts |-> EscapeQuotes(text)]

\* What the ask-with-context statement holds before and after the question.
AskSqlBeforeQuestion == PromptMid
AskSqlAfterQuestion == EscapeQuotes(PromptTail) \o AskSqlTail

\* What the row-analysis statement holds before and after the question.
AnalysisSqlBeforeQuestion == AnalysisSqlInstr
AnalysisSqlAfterQuestion ==
    AnalysisSqlFrom \o QualifiedName(catalog, schema, table)
        \o AnalysisSqlWhere \o IntToStr(AnalysisLimit)

\* The statement ends with the text, between what comes before and after it.
EmbedsAs(sql0, before, text, after) ==
    \E sql \in {sql0}, tail \in {before \o text \o after} :
        /\ Len(sql) >= Len(tail)
        /\ SubSeq(sql, Len(sql) - Len(tail) + 1, Len(sql)) = tail

HoldsQuestion == user_question.type = "str" /\ query.kind \in {"ask", "analysis"}

\* C11: the statement built by build_ai_query_with_data_sql and the one built
\* by build_data_analysis_sql hold the user's question with each of its single
\* quotes written exactly twice and every other character as it is, so a
\* question without quotes is held unchanged.
C11_QuestionQuotesDoubledOnce ==
    HoldsQuestion =>
        IF query.kind = "ask"
        THEN EmbedsAs(query.sql, AskSqlBeforeQuestion,
                      QuestionDoubled[user_question.value], AskSqlAfterQuestion)
        ELSE EmbedsAs(query.sql, AnalysisSqlBeforeQuestion,
                      QuestionDoubled[user_question.value], AnalysisSqlAfterQuestion)

\* The history is user, assistant, user, assistant, ...: each user message is
\* followed by one assistant message.
Alternates(history) ==
    /\ Len(history) % 2 = 0
    /\ \A i \in 1..Len(history) :
        history[i].role = IF i % 2 = 1 THEN "user" ELSE "assistant"

\* C12: between two script runs of the page, whatever prompts were submitted
\* in either query mode, however the backend answered, and whenever Clear Chat
\* History was pressed, the stored history alternates user and assistant
\* messages, starting with a user message and ending with an assistant one.
C12_HistoryAlternates == app_pc = "idle" => Alternates(messages)

====
